---- MODULE Spec2Model ----
(***************************************************************************)
(* A model of go-archiver: Tar walks a directory tree and writes tar       *)
(* entries to a writer, Untar reads tar entries and rebuilds the tree      *)
(* under a destination, GzipCompress / GzipDecompress wrap the two in a    *)
(* gzip stream.                                                            *)
(*                                                                         *)
(* Strings are sequences of one-character strings, so that                 *)
(* strings.HasPrefix, filepath.Clean, filepath.Join and filepath.Rel are   *)
(* computed character by character as the code computes them.              *)
(* The filesystem is a function from cleaned absolute paths to nodes.      *)
(* A tar stream is a sequence of blocks; a payload block is abstracted to  *)
(* carry one byte of file content.                                         *)
(***************************************************************************)
EXTENDS Integers, Sequences, FiniteSets, TLC

VARIABLES
    fs,         \* the filesystem: absolute path -> [t, perm, data]
    fs0,        \* the filesystem when the operation under study was called
    umask,      \* the process umask: the permission bits cleared on creation
    pc,         \* position of the caller / of the running operation
    source,     \* Tar's source argument
    honor,      \* tarOptions.honorGitIgnore
    level,      \* the gzip level option (GzipCompress)
    wrap,       \* "plain": Tar / Untar called directly, "gzip": through gzip
    matched,    \* the relative paths the compiled .gitignore matches
    todo,       \* filepath.Walk: the paths still to visit, in visiting order
    visited,    \* the paths the walk callback has been called with
    sink,       \* the blocks received by the io.Writer given to Tar
    budget,     \* number of writes the io.Writer accepts before it fails
    twErr,      \* the tar.Writer's sticky error
    tarErr,     \* the error returned by Tar / GzipCompress
    dest,       \* Untar's destination argument
    stream,     \* the blocks of the io.Reader given to Untar
    pos,        \* number of blocks of stream consumed so far
    untarErr,   \* the error returned by Untar / GzipDecompress
    closeOk,    \* whether closing an extracted file succeeds
    ioFailed,   \* whether some I/O step of the running operation has failed
    run,        \* which of the caller's successive calls is running
    saved       \* what the caller recorded after the earlier call

vars == <<fs, fs0, umask, pc, source, honor, level, wrap, matched, todo,
          visited, sink, budget, twErr, tarErr, dest, stream, pos, untarErr,
          closeOk, ioFailed, run, saved>>

UntarVars == <<dest, stream, closeOk>>
TarVars == <<source, honor, level, matched, todo, visited, sink, budget, twErr, tarErr>>

-----------------------------------------------------------------------------
(* Bounds of the model.                                                    *)

\* longest crafted archive, in entries
MaxEntries == 2

\* largest number of writes a failing writer accepts before it fails
MaxBudget == 3

\* length of the longest file of a source tree, in bytes
MaxFileLen == 2

-----------------------------------------------------------------------------
(* Strings and paths.                                                      *)

Nil == "nil"

\* strings.HasPrefix(s, prefix)
HasPrefix(s, prefix) ==
    /\ Len(prefix) <= Len(s)
    /\ SubSeq(s, 1, Len(prefix)) = prefix

\* the elements of a path between separators, empty elements dropped
RECURSIVE SplitFrom(_, _, _)
SplitFrom(s, i, cur) ==
    IF i > Len(s)
    THEN IF cur = <<>> THEN <<>> ELSE <<cur>>
    ELSE IF s[i] = "/"
         THEN (IF cur = <<>> THEN <<>> ELSE <<cur>>) \o SplitFrom(s, i + 1, <<>>)
         ELSE SplitFrom(s, i + 1, Append(cur, s[i]))

Split(s) == SplitFrom(s, 1, <<>>)

RECURSIVE JoinElems(_)
JoinElems(elems) ==
    IF elems = <<>> THEN <<>>
    ELSE IF Len(elems) = 1 THEN elems[1]
    ELSE elems[1] \o <<"/">> \o JoinElems(Tail(elems))

IsAbs(s) == Len(s) > 0 /\ s[1] = "/"

\* filepath.Clean's pass over the elements: "." is dropped, ".." removes the
\* element before it, or is dropped at the root, or is kept in a relative path
RECURSIVE CleanElems(_, _, _)
CleanElems(elems, out, rooted) ==
    IF elems = <<>> THEN out
    ELSE LET e == Head(elems)
             rest == Tail(elems)
         IN  IF e = <<".">> THEN CleanElems(rest, out, rooted)
             ELSE IF e = <<".", ".">>
                  THEN IF out # <<>> /\ out[Len(out)] # <<".", ".">>
                       THEN CleanElems(rest, SubSeq(out, 1, Len(out) - 1), rooted)
                       ELSE IF rooted THEN CleanElems(rest, out, rooted)
                            ELSE CleanElems(rest, Append(out, e), rooted)
                  ELSE CleanElems(rest, Append(out, e), rooted)

\* filepath.Clean(s)
Clean(s) ==
    LET body == JoinElems(CleanElems(Split(s), <<>>, IsAbs(s)))
    IN  IF IsAbs(s) THEN <<"/">> \o body
        ELSE IF body = <<>> THEN <<".">> ELSE body

\* filepath.Join(a, b)
Join(a, b) ==
    IF a = <<>> /\ b = <<>> THEN <<>>
    ELSE IF a = <<>> THEN Clean(b)
    ELSE IF b = <<>> THEN Clean(a)
    ELSE Clean(a \o <<"/">> \o b)

\* the working directory of the process
Cwd == <<"/">>

\* filepath.Abs(s)
Abs(s) == IF IsAbs(s) THEN Clean(s) ELSE Join(Cwd, s)

\* filepath.Rel(base, targ) of two absolute paths
RECURSIVE CommonLen(_, _)
CommonLen(a, b) ==
    IF a = <<>> \/ b = <<>> \/ Head(a) # Head(b) THEN 0
    ELSE 1 + CommonLen(Tail(a), Tail(b))

Rel(base, targ) ==
    LET b == Split(Clean(base))
        t == Split(Clean(targ))
        n == CommonLen(b, t)
        ups == [i \in 1..(Len(b) - n) |-> <<".", ".">>]
        r == JoinElems(ups \o SubSeq(t, n + 1, Len(t)))
    IN  IF r = <<>> THEN <<".">> ELSE r

\* filepath.Dir of a cleaned absolute path
Dir(p) ==
    LET e == Split(p)
    IN  IF Len(e) <= 1 THEN <<"/">>
        ELSE <<"/">> \o JoinElems(SubSeq(e, 1, Len(e) - 1))

\* fi.Name(): the last element of a path
Base(p) == LET e == Split(p) IN IF e = <<>> THEN <<"/">> ELSE e[Len(e)]

\* whether cleaned absolute path p is directory d or lies beneath it
Within(p, d) ==
    LET pe == Split(p)
        de == Split(d)
    IN  Len(de) <= Len(pe) /\ SubSeq(pe, 1, Len(de)) = de

-----------------------------------------------------------------------------
(* The filesystem.                                                         *)

AllBits == {"ur", "uw", "ux", "gr", "gw", "gx", "or", "ow", "ox"}
M644 == {"ur", "uw", "gr", "or"}
M664 == {"ur", "uw", "gr", "gw", "or"}
M755 == {"ur", "uw", "ux", "gr", "gx", "or", "ox"}
M775 == {"ur", "uw", "ux", "gr", "gw", "gx", "or", "ox"}

\* the umask values a process is started with: none, and the usual 022
U000 == {}
U022 == {"gw", "ow"}

DirNode(perm) == [t |-> "dir", perm |-> perm, data |-> <<>>]
FileNode(perm, data) == [t |-> "file", perm |-> perm, data |-> data]
LinkNode == [t |-> "link", perm |-> AllBits, data |-> <<>>]

Put(f, p, node) == [q \in DOMAIN f \cup {p} |-> IF q = p THEN node ELSE f[q]]

\* os.Stat(p) succeeds
StatOk(f, p) == Abs(p) \in DOMAIN f

\* os.Stat(p) succeeds and IsDir()
StatIsDir(f, p) == StatOk(f, p) /\ f[Abs(p)].t = "dir"

PrefixPath(elems, i) == <<"/">> \o JoinElems(SubSeq(elems, 1, i))

\* os.MkdirAll(path, perm): every missing directory down to path is created
\* with perm less the umask; an existing non-directory on the way is an error
RECURSIVE MkdirFrom(_, _, _, _, _)
MkdirFrom(f, elems, i, perm, msk) ==
    IF i > Len(elems) THEN [fs |-> f, err |-> Nil]
    ELSE LET p == PrefixPath(elems, i)
         IN  IF p \in DOMAIN f
             THEN IF f[p].t = "dir"
                  THEN MkdirFrom(f, elems, i + 1, perm, msk)
                  ELSE [fs |-> f, err |-> "ENOTDIR"]
             ELSE MkdirFrom(Put(f, p, DirNode(perm \ msk)), elems, i + 1, perm, msk)

MkdirAll(f, path, perm, msk) == MkdirFrom(f, Split(path), 1, perm, msk)

\* the bytes of a file after data is written from offset 0 over old
Overwrite(old, data) ==
    IF Len(data) >= Len(old) THEN data
    ELSE data \o SubSeq(old, Len(data) + 1, Len(old))

\* os.OpenFile(target, os.O_CREATE|os.O_RDWR, mode): the error, or Nil
OpenErr(f, target) ==
    IF Dir(target) \notin DOMAIN f THEN "ENOENT"
    ELSE IF f[Dir(target)].t # "dir" THEN "ENOTDIR"
    ELSE IF target \in DOMAIN f /\ f[target].t = "dir" THEN "EISDIR"
    ELSE Nil

\* the file after os.OpenFile and io.Copy of data into it: an existing file
\* keeps its mode and is written from offset 0, a new one gets mode less umask
Written(f, target, mode, data, msk) ==
    IF target \in DOMAIN f
    THEN Put(f, target, FileNode(f[target].perm, Overwrite(f[target].data, data)))
    ELSE Put(f, target, FileNode(mode \ msk, data))

\* writeFile(tr, target, mode), where the tar reader yields data and then
\* readErr; the error of f.Close() is dropped by the defer
writeFile(f, target, mode, data, readErr, msk) ==
    IF OpenErr(f, target) # Nil
    THEN [fs |-> f, err |-> OpenErr(f, target), opened |-> FALSE]
    ELSE [fs |-> Written(f, target, mode, data, msk), err |-> readErr,
          opened |-> TRUE]

-----------------------------------------------------------------------------
(* Tar blocks.                                                             *)

Hdr(name, tf, mode, size) ==
    [k |-> "hdr", name |-> name, tf |-> tf, mode |-> mode, size |-> size, b |-> "-"]
Data(b) ==
    [k |-> "data", name |-> <<>>, tf |-> "-", mode |-> {}, size |-> 0, b |-> b]
\* a block of zero bytes
Zero ==
    [k |-> "zero", name |-> <<>>, tf |-> "-", mode |-> {}, size |-> 0, b |-> "0"]
\* a block of text: its header checksum does not verify
Junk ==
    [k |-> "junk", name |-> <<>>, tf |-> "-", mode |-> {}, size |-> 0, b |-> "t"]
\* trailing bytes that do not fill a block
Part ==
    [k |-> "part", name |-> <<>>, tf |-> "-", mode |-> {}, size |-> 0, b |-> "t"]

DataBlocks(data) == [i \in 1..Len(data) |-> Data(data[i])]

\* gzip framing of a stream
GzHeader == [k |-> "gzhdr"]
Deflate(lvl, blk) == [k |-> "deflate", lvl |-> lvl, x |-> blk]
GzTrailer(n) == [k |-> "gztrailer", n |-> n]

-----------------------------------------------------------------------------
(* Reading: gzip.Reader and tar.Reader.                                    *)

\* what a gzip.Reader yields from the blocks after the gzip header: the
\* inflated blocks, then io.EOF at a trailer that verifies, else an error
RECURSIVE Gunzip(_, _, _)
Gunzip(items, i, acc) ==
    IF i > Len(items) THEN [blocks |-> acc, end |-> "ErrUnexpectedEOF"]
    ELSE IF items[i].k = "deflate" THEN Gunzip(items, i + 1, Append(acc, items[i].x))
    ELSE IF items[i].k = "gztrailer"
         THEN [blocks |-> acc,
               end |-> IF items[i].n = Len(acc) THEN "EOF" ELSE "gzip: invalid checksum"]
         ELSE [blocks |-> acc, end |-> "flate: corrupt input"]

\* what the io.Reader given to Untar yields: the whole blocks, and how the
\* read after them ends (trailing bytes short of a block end io.ReadFull with
\* io.ErrUnexpectedEOF)
PlainInput(strm) ==
    IF strm # <<>> /\ strm[Len(strm)].k = "part"
    THEN [blocks |-> SubSeq(strm, 1, Len(strm) - 1), end |-> "ErrUnexpectedEOF"]
    ELSE [blocks |-> strm, end |-> "EOF"]

\* Untar handed the reader itself where the gzip.Reader is due
TarInputUnwrapped(strm, w) == PlainInput(strm)

\* GzipDecompress hands Untar the gzip.Reader, Untar's caller the reader itself
TarInput(strm, w) ==
    IF w = "gzip" THEN Gunzip(strm, 2, <<>>) ELSE PlainInput(strm)

\* gzip.NewReader(r): the error of reading the gzip header, or Nil
GzipNewReaderErr(strm) ==
    IF strm = <<>> THEN "EOF"
    ELSE IF strm[1].k # "gzhdr" THEN "gzip: invalid header"
    ELSE Nil

\* tar.Reader.Next() with i blocks consumed: the next header and its index, or
\* the error. No block left is io.EOF, as is one zero block and no block left,
\* and two zero blocks; a zero block before another block, and a block that is
\* no header, are tar.ErrHeader.
TrNext(in, i) ==
    LET B == in.blocks
    IN  IF i + 1 > Len(B) THEN [err |-> in.end, at |-> i]
        ELSE IF B[i + 1].k = "zero"
             THEN IF i + 2 > Len(B) THEN [err |-> in.end, at |-> i + 1]
                  ELSE IF B[i + 2].k = "zero" THEN [err |-> "EOF", at |-> i + 2]
                  ELSE [err |-> "ErrHeader", at |-> i + 2]
        ELSE IF B[i + 1].k = "hdr" THEN [err |-> Nil, at |-> i + 1]
        ELSE [err |-> "ErrHeader", at |-> i + 1]

\* io.Copy(f, tr) after the header at index j: the payload bytes that are
\* there, and io.ErrUnexpectedEOF when the stream ends before hdr.Size bytes
TrPayload(in, j) ==
    LET B == in.blocks
        n == B[j].size
        last == IF j + n <= Len(B) THEN j + n ELSE Len(B)
    IN  [data |-> [i \in 1..(last - j) |-> B[j + i].b],
         err |-> IF j + n <= Len(B) THEN Nil
                 ELSE IF in.end = "EOF" THEN "ErrUnexpectedEOF" ELSE in.end,
         at |-> last]

-----------------------------------------------------------------------------
(* Writing: tar.Writer and gzip.Writer over the caller's io.Writer.        *)

\* the compression levels of gzip_compress.go
HuffmanOnly == -2
DefaultCompression == -1
NoCompression == 0
BestSpeed == 1
BestCompression == 9

\* gzip.NewWriterLevel(w, lvl): the error, or Nil
GzipNewWriterErr(lvl) ==
    IF lvl < HuffmanOnly \/ lvl > BestCompression
    THEN "gzip: invalid compression level" ELSE Nil

\* what the caller's writer receives when the tar.Writer writes a block: the
\* block itself, or through a gzip.Writer the gzip header before the first
\* block and the block deflated
Encode(w, lvl, snk, blk) ==
    IF w = "gzip"
    THEN (IF snk = <<>> THEN <<GzHeader>> ELSE <<>>) \o <<Deflate(lvl, blk)>>
    ELSE <<blk>>

\* one Write on the caller's writer, which fails once its budget is used up
\* (a budget of -1 never is)
RECURSIVE RawWrite(_, _)
RawWrite(st, blks) ==
    IF blks = <<>> \/ st.err # Nil THEN st
    ELSE IF st.budget = 0 THEN [st EXCEPT !.err = "write error"]
    ELSE RawWrite([sink |-> Append(st.sink, Head(blks)),
                   budget |-> IF st.budget > 0 THEN st.budget - 1 ELSE st.budget,
                   err |-> Nil],
                  Tail(blks))

\* the tar.Writer writes blocks: nothing once it has failed (its error sticks)
RECURSIVE TwWrite(_, _, _, _)
TwWrite(st, w, lvl, blks) ==
    IF blks = <<>> \/ st.err # Nil THEN st
    ELSE TwWrite(RawWrite(st, Encode(w, lvl, st.sink, Head(blks))), w, lvl, Tail(blks))

\* the number of deflated blocks a gzip stream holds so far
Deflated(snk) == Cardinality({ i \in 1..Len(snk) : snk[i].k = "deflate" })

-----------------------------------------------------------------------------
(* Tar.                                                                    *)

\* byte order of the characters that occur in names
Alphabet == <<".", "/", "a", "d", "e", "f", "g", "i", "l", "n", "o", "r", "s", "t", "x">>
Rank(c) == CHOOSE i \in 1..Len(Alphabet) : Alphabet[i] = c

RECURSIVE LexLess(_, _)
LexLess(a, b) ==
    IF b = <<>> THEN FALSE
    ELSE IF a = <<>> THEN TRUE
    ELSE IF Head(a) = Head(b) THEN LexLess(Tail(a), Tail(b))
    ELSE Rank(Head(a)) < Rank(Head(b))

RECURSIVE Sorted(_)
Sorted(S) ==
    IF S = {} THEN <<>>
    ELSE LET m == CHOOSE x \in S : \A y \in S \ {x} : LexLess(x, y)
         IN  <<m>> \o Sorted(S \ {m})

\* readDirNames(dir): the names in the directory, sorted
DirNames(f, dir) ==
    Sorted({ Base(p) : p \in { q \in DOMAIN f : q # Abs(dir) /\ Dir(q) = Abs(dir) } })

\* the check of the source without its IsDir test
TarPrecheckNoDirTest(f, src) ==
    IF ~StatOk(f, src) THEN "unable to tar files" ELSE Nil

\* the source must exist and be a directory
TarPrecheck(f, src) ==
    IF ~StatOk(f, src) THEN "unable to tar files"
    ELSE IF ~StatIsDir(f, src) THEN "can only archive a directory"
    ELSE Nil

GitIgnoreName == <<".", "g", "i", "t", "i", "g", "n", "o", "r", "e">>

\* gitignore.CompileIgnoreFile(gitignorePath): the error, or Nil
CompileIgnoreErr(f, absSource) ==
    LET path == Join(absSource, GitIgnoreName)
    IN  IF path \in DOMAIN f /\ f[path].t = "file" THEN Nil ELSE "open .gitignore"

\* ignorer != nil && ignorer.MatchesPath(relPath)
Ignored(hon, mtch, relPath) == hon /\ relPath \in mtch

\* tar.FileInfoHeader(fi, fi.Name()) with header.Name = relPath
HeaderOf(fi, relPath) ==
    Hdr(relPath, IF fi.t = "dir" THEN "dir" ELSE "reg", fi.perm,
        IF fi.t = "dir" THEN 0 ELSE Len(fi.data))

\* what the walk function does with one path: "skip" (return nil before any
\* header), "illegal", or "emit"
Decide(f, src, file, hon, mtch) ==
    LET fi == f[Abs(file)]
        absSource == Abs(src)
        absFile == Abs(file)
        relPath == Rel(absSource, absFile)
    IN  IF fi.t \notin {"file", "dir"} THEN "skip"
        ELSE IF relPath = <<".">> THEN "skip"
        ELSE IF ~HasPrefix(absFile, absSource) THEN "illegal"
        ELSE IF Ignored(hon, mtch, relPath) THEN "skip"
        ELSE "emit"

\* whether filepath.Walk goes on into the directory after the walk function
\* returned nil for it: the function never returns filepath.SkipDir
Descend(f, src, file, hon, mtch) == f[Abs(file)].t = "dir"

\* Tar up to the walk: the checks of the source, the tar.Writer, the ignore file
TarStart ==
    /\ pc = "call_tar"
    /\ LET src == Clean(source)
           pre == TarPrecheck(fs, src)
       IN  IF pre # Nil
           THEN /\ pc' = (IF wrap = "gzip" THEN "gzip_close" ELSE "tar_done")
                /\ tarErr' = pre
                /\ todo' = <<>>
           ELSE IF honor /\ CompileIgnoreErr(fs, Abs(src)) # Nil
           THEN /\ pc' = "walk"
                /\ tarErr' = CompileIgnoreErr(fs, Abs(src))
                /\ todo' = <<>>
           ELSE /\ pc' = "walk"
                /\ tarErr' = Nil
                /\ todo' = <<src>>
    /\ UNCHANGED <<fs, fs0, umask, wrap, source, honor, level, matched, visited,
                   sink, budget, twErr, pos, untarErr, ioFailed, run, saved>>
    /\ UNCHANGED UntarVars

\* filepath.Walk calls the walk function with the next path
TarVisit ==
    /\ pc = "walk"
    /\ tarErr = Nil
    /\ todo # <<>>
    /\ LET file == Head(todo)
           src == Clean(source)
           fi == fs[Abs(file)]
           what == Decide(fs, src, file, honor, matched)
           hdr == HeaderOf(fi, Rel(Abs(src), Abs(file)))
           blks == IF what # "emit" THEN <<>>
                   ELSE <<hdr>> \o (IF fi.t = "dir" THEN <<>> ELSE DataBlocks(fi.data))
           st == TwWrite([sink |-> sink, budget |-> budget, err |-> twErr],
                         wrap, level, blks)
           kids == IF Descend(fs, src, file, honor, matched)
                   THEN [i \in 1..Len(DirNames(fs, file)) |->
                            Join(file, DirNames(fs, file)[i])]
                   ELSE <<>>
       IN  /\ visited' = visited \cup {Abs(file)}
           /\ sink' = st.sink
           /\ budget' = st.budget
           /\ twErr' = st.err
           /\ ioFailed' = (ioFailed \/ st.err # Nil)
           /\ tarErr' = (IF what = "illegal" THEN "illegal file path" ELSE st.err)
           /\ todo' = kids \o Tail(todo)
    /\ UNCHANGED <<fs, fs0, umask, pc, wrap, source, honor, level, matched,
                   pos, untarErr, run, saved>>
    /\ UNCHANGED UntarVars

\* the walk is over, or was stopped by an error: the deferred tw.Close()
\* writes the end-of-archive marker, its error is dropped, Tar returns
TarReturn ==
    /\ pc = "walk"
    /\ tarErr # Nil \/ todo = <<>>
    /\ LET st == TwWrite([sink |-> sink, budget |-> budget, err |-> twErr],
                         wrap, level, <<Zero, Zero>>)
       IN  /\ sink' = st.sink
           /\ budget' = st.budget
           /\ twErr' = st.err
           /\ ioFailed' = (ioFailed \/ st.err # Nil)
    /\ pc' = (IF wrap = "gzip" THEN "gzip_close" ELSE "tar_done")
    /\ UNCHANGED <<fs, fs0, umask, wrap, source, honor, level, matched, todo,
                   visited, tarErr, pos, untarErr, run, saved>>
    /\ UNCHANGED UntarVars

-----------------------------------------------------------------------------
(* Untar.                                                                  *)

\* the target of an entry: filepath.Clean(filepath.Join(absDestination, name))
Target(dst, name) == Clean(Join(Abs(dst), name))

\* the check that lets an entry through
TargetLegal(dst, name) == HasPrefix(Target(dst, name), Abs(dst))

\* one entry of the loop, after the path check: the filesystem, the error and
\* the number of blocks consumed
UntarEntry(f, in, j, dst, msk) ==
    LET h == in.blocks[j]
        target == Target(dst, h.name)
    IN  IF h.tf = "dir"
        THEN IF StatOk(f, target)
             THEN [fs |-> f, err |-> Nil, at |-> j, opened |-> FALSE]
             ELSE LET m == MkdirAll(f, target, h.mode, msk)
                  IN  [fs |-> m.fs, err |-> m.err, at |-> j, opened |-> FALSE]
        ELSE IF h.tf = "reg"
        THEN LET pl == TrPayload(in, j)
                 w == writeFile(f, target, h.mode, pl.data, pl.err, msk)
             IN  [fs |-> w.fs, err |-> w.err, at |-> IF w.opened THEN pl.at ELSE j,
                  opened |-> w.opened]
        ELSE [fs |-> f, err |-> Nil, at |-> j, opened |-> FALSE]

\* Untar up to its loop: the destination must exist and be a directory
UntarStart ==
    /\ pc = "call_untar"
    /\ pos' = 0
    /\ IF ~StatOk(fs, dest)
       THEN pc' = "done" /\ untarErr' = "unable to tar files"
       ELSE IF ~StatIsDir(fs, dest)
            THEN pc' = "done" /\ untarErr' = "can only untar into a directory"
            ELSE pc' = "untar" /\ untarErr' = Nil
    /\ UNCHANGED <<fs, fs0, umask, wrap, ioFailed, run, saved>>
    /\ UNCHANGED UntarVars
    /\ UNCHANGED TarVars

\* one iteration of Untar's loop
UntarStep ==
    /\ pc = "untar"
    /\ LET in == TarInput(stream, wrap)
           nx == TrNext(in, pos)
       IN  IF nx.err = "EOF"
           THEN /\ pc' = "done" /\ untarErr' = Nil /\ pos' = nx.at
                /\ UNCHANGED <<fs, ioFailed>>
           ELSE IF nx.err # Nil
           THEN /\ pc' = "done" /\ untarErr' = nx.err /\ pos' = nx.at
                /\ ioFailed' = TRUE
                /\ UNCHANGED fs
           ELSE IF ~TargetLegal(dest, in.blocks[nx.at].name)
           THEN /\ pc' = "done" /\ untarErr' = "illegal file path" /\ pos' = nx.at
                /\ UNCHANGED <<fs, ioFailed>>
           ELSE LET r == UntarEntry(fs, in, nx.at, dest, umask)
                IN  /\ fs' = r.fs
                    /\ pos' = r.at
                    /\ ioFailed' = (ioFailed \/ r.err # Nil \/ (r.opened /\ ~closeOk))
                    /\ IF r.err # Nil
                       THEN pc' = "done" /\ untarErr' = r.err
                       ELSE pc' = "untar" /\ UNCHANGED untarErr
    /\ UNCHANGED <<fs0, umask, wrap, run, saved>>
    /\ UNCHANGED UntarVars
    /\ UNCHANGED TarVars

-----------------------------------------------------------------------------
(* Archives handed to Untar by a caller.                                   *)

Entry(name, tf, mode, data) == [name |-> name, tf |-> tf, mode |-> mode, data |-> data]

\* the blocks a tar.Writer writes for one entry
EntryBlocks(e) == <<Hdr(e.name, e.tf, e.mode, Len(e.data))>> \o DataBlocks(e.data)

RECURSIVE EntriesBlocks(_)
EntriesBlocks(es) ==
    IF es = <<>> THEN <<>> ELSE EntryBlocks(Head(es)) \o EntriesBlocks(Tail(es))

\* a well-formed archive: the entries, then the end-of-archive marker
Serialize(es) == EntriesBlocks(es) \o <<Zero, Zero>>

DestDir == <<"/", "d">>

\* the entries a crafted archive is made of: directories and files inside the
\* destination, a child that can come before its parent, names that climb out
\* of the destination (one into a sibling whose path starts with the
\* destination's), and an entry kind Untar does not handle
CraftedEntries ==
    { Entry(<<"a">>, "dir", M755, <<>>),
      Entry(<<"a", "/", "f">>, "reg", M644, <<"x">>),
      Entry(<<"a", "/", "s">>, "dir", M755, <<>>),
      Entry(<<"f">>, "reg", M644, <<"x">>),
      Entry(<<".", ".", "/", "e">>, "dir", M755, <<>>),
      Entry(<<".", ".", "/", "d", "x", "/", "e">>, "dir", M755, <<>>),
      Entry(<<".", ".", "/", "d", "x">>, "reg", M644, <<"x">>),
      Entry(<<"l">>, "sym", AllBits, <<>>) }

EntrySeqs == UNION { [1..n -> CraftedEntries] : n \in 0..MaxEntries }

\* every well-formed archive, every truncation of one (cut at a block, or
\* inside a block), and text that is no archive
Truncations(bs) ==
    { SubSeq(bs, 1, n) : n \in 0..Len(bs) }
        \cup { Append(SubSeq(bs, 1, n), Part) : n \in 0..(Len(bs) - 1) }

CraftedStreams ==
    UNION { Truncations(Serialize(es)) : es \in EntrySeqs }
        \cup { <<Junk>>, <<Junk, Junk>>, <<Junk, Part>> }

\* whether a stream is a well-formed archive
WellFormed(strm) == \E es \in EntrySeqs : strm = Serialize(es)

RootOnly == [p \in {<<"/">>} |-> DirNode(M755)]

\* the destination, empty
FsEmptyDest == Put(RootOnly, DestDir, DirNode(M755))

\* the destination holding a directory and a longer file of an earlier
\* extraction
FsPriorDest ==
    Put(Put(FsEmptyDest, <<"/", "d", "/", "a">>, DirNode(M775)),
        <<"/", "d", "/", "f">>, FileNode(M664, <<"p", "q">>))

\* the destination path naming a regular file
FsFileDest == Put(RootOnly, DestDir, FileNode(M644, <<>>))

NoTar ==
    /\ source = <<>> /\ honor = FALSE /\ level = 0 /\ matched = {}
    /\ todo = <<>> /\ visited = {} /\ sink = <<>> /\ budget = -1
    /\ twErr = Nil /\ tarErr = Nil

InitUntar ==
    /\ fs \in {RootOnly, FsEmptyDest, FsPriorDest, FsFileDest}
    /\ fs0 = fs
    /\ umask = U022
    /\ pc = "call_untar"
    /\ wrap = "plain"
    /\ NoTar
    /\ dest = DestDir
    /\ stream \in CraftedStreams
    /\ pos = 0
    /\ untarErr = Nil
    /\ closeOk \in BOOLEAN
    /\ ioFailed = FALSE
    /\ run = 1
    /\ saved = <<>>

\* the caller runs Untar again, on the same archive and destination
Reextract ==
    /\ pc = "done"
    /\ run = 1
    /\ run' = 2
    /\ saved' = <<untarErr, fs>>
    /\ pc' = "call_untar"
    /\ pos' = 0
    /\ untarErr' = Nil
    /\ UNCHANGED <<fs, fs0, umask, wrap, ioFailed>>
    /\ UNCHANGED UntarVars
    /\ UNCHANGED TarVars

NextUntar == UntarStart \/ UntarStep \/ Reextract

\* Untar called by a caller with an archive of its choosing
SpecUntar == InitUntar /\ [][NextUntar]_vars

-----------------------------------------------------------------------------
(* Trees handed to Tar by a caller.                                        *)

SrcDir == <<"/", "s">>

\* the objects a source tree is made of, by relative path: the ignore file, a
\* directory with a file and a subdirectory, a file, a symbolic link
SrcNodes ==
    [p \in { GitIgnoreName, <<"a">>, <<"a", "/", "f">>, <<"a", "/", "s">>,
             <<"g">>, <<"l">> } |->
        CASE p = GitIgnoreName -> FileNode(M644, <<"p">>)
          [] p = <<"a">> -> DirNode(M755)
          [] p = <<"a", "/", "f">> -> FileNode(M644, <<"x">>)
          [] p = <<"a", "/", "s">> -> DirNode(M775)
          [] p = <<"g">> ->
                 FileNode(M664, [i \in 1..MaxFileLen |-> IF i % 2 = 1 THEN "y" ELSE "z"])
          [] OTHER -> LinkNode]

\* the sets of relative paths that are trees: a child comes with its parent
TreeShapes ==
    { S \in SUBSET DOMAIN SrcNodes :
        \A p \in S : Len(Split(p)) > 1 => Rel(<<"/">>, Dir(<<"/">> \o p)) \in S }

\* the filesystem holding the tree S under SrcDir, and an empty DestDir
FsWithTree(S) ==
    [p \in {<<"/">>, SrcDir, DestDir} \cup { Join(SrcDir, q) : q \in S } |->
        IF p \in {<<"/">>, SrcDir, DestDir} THEN DirNode(M755)
        ELSE SrcNodes[Rel(SrcDir, p)]]

\* the source arguments: the tree, the same unclean and relative, a regular
\* file, a path that does not exist
SourceArgs ==
    { SrcDir, <<"s", "/">>, <<"/", "s", "/", "g">>, <<"/", "n">> }

NoUntar ==
    /\ dest = DestDir /\ stream = <<>> /\ pos = 0 /\ untarErr = Nil
    /\ closeOk = TRUE

\* the sets of paths an ignore file can match in the tree S
MatchSets(S) == SUBSET { p \in S : SrcNodes[p].t # "link" }

InitTar ==
    /\ \E S \in TreeShapes :
          /\ fs = FsWithTree(S)
          /\ \/ honor = FALSE /\ matched = {}
             \/ honor = TRUE /\ matched \in MatchSets(S)
    /\ fs0 = fs
    /\ umask = U022
    /\ pc = "call_tar"
    /\ wrap = "plain"
    /\ source \in SourceArgs
    /\ level = DefaultCompression
    /\ todo = <<>> /\ visited = {} /\ sink = <<>>
    /\ budget \in -1..MaxBudget
    /\ twErr = Nil /\ tarErr = Nil
    /\ NoUntar
    /\ ioFailed = FALSE
    /\ run = 1
    /\ saved = <<>>

NextTar == TarStart \/ TarVisit \/ TarReturn

\* Tar called by a caller on a path of its choosing, with a writer that may fail
SpecTar == InitTar /\ [][NextTar]_vars

-----------------------------------------------------------------------------
(* GzipCompress, GzipDecompress, and callers that chain the operations.    *)

\* defaultOpts(): the options before any TarOption is applied
DefaultOpts == [honorGitIgnore |-> FALSE, level |-> DefaultCompression]

\* GzipCompress up to its call of Tar's body: gzip.NewWriterLevel
GzipCompressStart ==
    /\ pc = "call_gzip"
    /\ IF GzipNewWriterErr(level) # Nil
       THEN pc' = "tar_done" /\ tarErr' = GzipNewWriterErr(level)
       ELSE pc' = "call_tar" /\ tarErr' = Nil
    /\ UNCHANGED <<fs, fs0, umask, wrap, source, honor, level, matched, todo,
                   visited, sink, budget, twErr, pos, untarErr, ioFailed, run, saved>>
    /\ UNCHANGED UntarVars

\* the deferred compressor.Close(): the gzip header if nothing was written,
\* then the trailer, unless a write through the compressor has failed; its
\* error is dropped, GzipCompress returns Tar's error
GzipCompressReturn ==
    /\ pc = "gzip_close"
    /\ LET st == RawWrite([sink |-> sink, budget |-> budget, err |-> twErr],
                          (IF sink = <<>> THEN <<GzHeader>> ELSE <<>>)
                              \o <<GzTrailer(Deflated(sink))>>)
       IN  /\ sink' = st.sink
           /\ budget' = st.budget
           /\ ioFailed' = (ioFailed \/ st.err # Nil)
    /\ pc' = "tar_done"
    /\ UNCHANGED <<fs, fs0, umask, wrap, source, honor, level, matched, todo,
                   visited, twErr, tarErr, pos, untarErr, run, saved>>
    /\ UNCHANGED UntarVars

\* GzipDecompress up to its call of Untar: gzip.NewReader
GzipDecompressStart ==
    /\ pc = "call_gunzip"
    /\ IF GzipNewReaderErr(stream) # Nil
       THEN pc' = "done" /\ untarErr' = GzipNewReaderErr(stream)
       ELSE pc' = "call_untar" /\ untarErr' = Nil
    /\ UNCHANGED <<fs, fs0, umask, wrap, pos, ioFailed, run, saved>>
    /\ UNCHANGED UntarVars
    /\ UNCHANGED TarVars

\* the caller, as the tests do: the archive was written without error, it is
\* reopened and read back into the destination
Pipe ==
    /\ pc = "tar_done"
    /\ tarErr = Nil
    /\ stream' = sink
    /\ pc' = (IF wrap = "gzip" THEN "call_gunzip" ELSE "call_untar")
    /\ UNCHANGED <<fs, fs0, umask, wrap, pos, untarErr, ioFailed, run, saved,
                   dest, closeOk>>
    /\ UNCHANGED TarVars

\* the objects beneath directory d, by relative path
TreeAt(f, d) ==
    { <<Rel(d, p), f[p]>> : p \in { q \in DOMAIN f : q # d /\ Within(q, d) } }

\* a chain of archive and extraction has ended
Finished == pc = "done" \/ (pc = "tar_done" /\ tarErr # Nil)

Dest2 == <<"/", "e">>

\* the caller, having gone through gzip, does the same without it into a
\* second empty destination
PlainAgain ==
    /\ Finished
    /\ run = 1
    /\ run' = 2
    /\ saved' = <<tarErr, untarErr, TreeAt(fs, Abs(dest))>>
    /\ wrap' = "plain"
    /\ dest' = Dest2
    /\ pc' = "call_tar"
    /\ sink' = <<>> /\ stream' = <<>> /\ pos' = 0
    /\ tarErr' = Nil /\ untarErr' = Nil /\ twErr' = Nil
    /\ todo' = <<>> /\ visited' = {}
    /\ UNCHANGED <<fs, fs0, umask, source, honor, level, matched, budget,
                   closeOk, ioFailed>>

InitRoundTrip ==
    /\ \E S \in TreeShapes :
          /\ fs = FsWithTree(S)
          /\ \/ honor = FALSE /\ matched = {}
             \/ honor = TRUE /\ matched \in MatchSets(S)
    /\ fs0 = fs
    /\ umask \in {U000, U022}
    /\ pc = "call_tar"
    /\ wrap = "plain"
    /\ source = SrcDir
    /\ level = DefaultOpts.level
    /\ todo = <<>> /\ visited = {} /\ sink = <<>>
    /\ budget = -1
    /\ twErr = Nil /\ tarErr = Nil
    /\ NoUntar
    /\ ioFailed = FALSE
    /\ run = 1
    /\ saved = <<>>

NextRoundTrip == TarStart \/ TarVisit \/ TarReturn \/ Pipe \/ UntarStart \/ UntarStep

\* Tar of a tree, then Untar of the archive into an empty destination
SpecRoundTrip == InitRoundTrip /\ [][NextRoundTrip]_vars

\* the levels a caller passes: the named ones, and one past the last
Levels ==
    { HuffmanOnly, DefaultOpts.level, NoCompression, BestSpeed, BestCompression,
      BestCompression + 1 }

InitGzip ==
    /\ \E S \in TreeShapes :
          /\ fs = Put(FsWithTree(S), Dest2, DirNode(M755))
          /\ \/ honor = FALSE /\ matched = {}
             \/ honor = TRUE /\ matched \in MatchSets(S)
    /\ fs0 = fs
    /\ umask = U022
    /\ pc = "call_gzip"
    /\ wrap = "gzip"
    /\ source = SrcDir
    /\ level \in Levels
    /\ todo = <<>> /\ visited = {} /\ sink = <<>>
    /\ budget = -1
    /\ twErr = Nil /\ tarErr = Nil
    /\ NoUntar
    /\ ioFailed = FALSE
    /\ run = 1
    /\ saved = <<>>

NextGzip ==
    \/ GzipCompressStart \/ TarStart \/ TarVisit \/ TarReturn \/ GzipCompressReturn
    \/ Pipe \/ GzipDecompressStart \/ UntarStart \/ UntarStep \/ PlainAgain

\* GzipCompress of a tree and GzipDecompress of the result, then Tar and Untar
\* of the same tree with the same options
SpecGzip == InitGzip /\ [][NextGzip]_vars

\* any of the callers above
Init == InitUntar \/ InitTar \/ InitRoundTrip \/ InitGzip

Next == NextGzip \/ Reextract

Spec == Init /\ [][Next]_vars

-----------------------------------------------------------------------------
(* Claims about Untar.                                                     *)

\* the entries of a well-formed archive
EntriesOf(strm) == CHOOSE es \in EntrySeqs : strm = Serialize(es)

\* the headers Untar has read so far
HeadersRead ==
    LET B == TarInput(stream, wrap).blocks
    IN  { B[j] : j \in { i \in 1..Len(B) : i <= pos /\ B[i].k = "hdr" } }

Escapes(name) == ~Within(Target(dest, name), Abs(dest))

\* the filesystem outside the destination is as it was when Untar was called
OutsideUntouched ==
    \A p \in DOMAIN fs \cup DOMAIN fs0 :
        ~Within(p, Abs(dest)) => p \in DOMAIN fs /\ p \in DOMAIN fs0 /\ fs[p] = fs0[p]

\* C1: once Untar has read an entry whose target is neither the destination
\* nor a path beneath it, it has aborted with an error, and in every state of
\* the run nothing outside the destination has been created or modified.
C1_PathSafety ==
    /\ OutsideUntouched
    /\ (\E h \in HeadersRead : Escapes(h.name)) => pc = "done" /\ untarErr # Nil

\* a well-formed archive whose names all resolve inside the destination
InsideArchive ==
    /\ WellFormed(stream)
    /\ \A i \in 1..Len(EntriesOf(stream)) : ~Escapes(EntriesOf(stream)[i].name)

\* the payload the archive's last regular-file entry of that name carries
LastPayload(es, name) ==
    es[CHOOSE i \in 1..Len(es) :
          /\ es[i].name = name /\ es[i].tf = "reg"
          /\ \A j \in (i + 1)..Len(es) : ~(es[j].name = name /\ es[j].tf = "reg")].data

\* C4: extracting into a destination that already holds some of the archive's
\* directories and files (the files with longer content) returns no error,
\* leaves the existing directories as they were, leaves every regular-file
\* target with exactly the entry's payload, and doing it again changes nothing.
C4_ReextractLastWriteWins ==
    (pc = "done" /\ fs0 = FsPriorDest /\ InsideArchive) =>
        LET es == EntriesOf(stream)
        IN  /\ untarErr = Nil
            /\ \A p \in DOMAIN fs0 : fs0[p].t = "dir" => fs[p] = fs0[p]
            /\ \A i \in 1..Len(es) :
                   es[i].tf = "reg" =>
                       /\ Target(dest, es[i].name) \in DOMAIN fs
                       /\ fs[Target(dest, es[i].name)].data = LastPayload(es, es[i].name)
            /\ run = 2 => saved = <<Nil, fs>>

\* C6: a stream that is not a well-formed archive (text, a truncated archive,
\* the empty stream) makes Untar into an existing directory return an error.
C6_MalformedRejected ==
    (pc = "done" /\ StatIsDir(fs0, dest) /\ ~WellFormed(stream)) => untarErr # Nil

\* the loop of Untar run to its end on the archive of the entries es
RECURSIVE UntarLoop(_, _, _, _, _)
UntarLoop(f, in, i, dst, msk) ==
    LET nx == TrNext(in, i)
    IN  IF nx.err # Nil \/ ~TargetLegal(dst, in.blocks[nx.at].name) THEN f
        ELSE LET r == UntarEntry(f, in, nx.at, dst, msk)
             IN  IF r.err # Nil THEN r.fs ELSE UntarLoop(r.fs, in, r.at, dst, msk)

Reversed(es) == [i \in 1..Len(es) |-> es[Len(es) + 1 - i]]

\* C9: a well-formed archive with all names inside the destination, whatever
\* the order of its entries (a child before or without its parent's entry), is
\* extracted without error, every directory and regular-file entry exists
\* afterwards, and the tree is the one the entries give in the opposite order.
C9_AnyEntryOrder ==
    (pc = "done" /\ run = 1 /\ fs0 = FsEmptyDest /\ InsideArchive) =>
        LET es == EntriesOf(stream)
        IN  /\ untarErr = Nil
            /\ \A i \in 1..Len(es) :
                   es[i].tf \in {"dir", "reg"} =>
                       /\ Target(dest, es[i].name) \in DOMAIN fs
                       /\ fs[Target(dest, es[i].name)].t =
                              (IF es[i].tf = "dir" THEN "dir" ELSE "file")
            /\ fs = UntarLoop(fs0, PlainInput(Serialize(Reversed(es))), 0, dest, umask)

-----------------------------------------------------------------------------
(* Claims about Tar.                                                       *)

\* the headers the caller's writer has received from Tar
HeadersWritten == { sink[i] : i \in { j \in 1..Len(sink) : sink[j].k = "hdr" } }

NumHeadersWritten == Cardinality({ j \in 1..Len(sink) : sink[j].k = "hdr" })

\* C5: when the source does not exist or is not a directory, Tar has returned
\* an error as soon as it has looked, nothing has been written to the writer
\* and no path has been walked.
C5_NonDirSourceRejected ==
    (pc # "call_tar" /\ ~StatIsDir(fs, Clean(source))) =>
        /\ pc = "tar_done"
        /\ tarErr # Nil
        /\ sink = <<>>
        /\ visited = {}
        /\ todo = <<>>

\* a source that is a regular file has been refused
C5_Witness ==
    /\ pc = "tar_done"
    /\ StatOk(fs, Clean(source))
    /\ fs[Abs(Clean(source))].t = "file"
    /\ tarErr = "can only archive a directory"
    /\ sink = <<>>

\* the directories of the source tree the ignore rules match
IgnoredDirs ==
    { p \in DOMAIN fs :
        /\ honor
        /\ fs[p].t = "dir"
        /\ p # Abs(source)
        /\ Within(p, Abs(source))
        /\ Rel(Abs(source), p) \in matched }

\* C8: with ignore rules active, no path beneath a matched directory is ever
\* visited by the walk, and no entry is written for one.
C8_IgnoredDirsPruned ==
    \A d \in IgnoredDirs :
        /\ \A p \in visited : ~(p # d /\ Within(p, d))
        /\ \A h \in HeadersWritten :
               ~(Join(Abs(source), h.name) # d /\ Within(Join(Abs(source), h.name), d))

\* C10: an operation in which some I/O step failed returns an error.
C10_IOErrorsReported ==
    /\ (pc = "tar_done" /\ ioFailed) => tarErr # Nil
    /\ (pc = "done" /\ ioFailed) => untarErr # Nil

-----------------------------------------------------------------------------
(* Claims about Tar followed by Untar.                                     *)

\* the relative paths of the source tree's directories and regular files
Eligible ==
    { Rel(Abs(source), p) :
        p \in { q \in DOMAIN fs0 :
                  /\ q # Abs(source) /\ Within(q, Abs(source))
                  /\ fs0[q].t \in {"dir", "file"} } }

OnlyDirsAndFiles ==
    \A q \in DOMAIN fs0 : Within(q, Abs(source)) => fs0[q].t \in {"dir", "file"}

\* C2: for a tree of directories and regular files, Tar without options and
\* Untar into an empty destination both return no error, and the destination
\* then holds exactly the tree's relative paths, each with the type, the
\* permission bits and the content it has in the source.
C2_RoundTrip ==
    (~honor /\ OnlyDirsAndFiles) =>
        /\ pc = "tar_done" => tarErr = Nil
        /\ pc = "done" =>
               /\ untarErr = Nil
               /\ TreeAt(fs, Abs(dest)) = TreeAt(fs, Abs(source))

\* C3: with HonorGitIgnore and a pattern file matching the set `matched`, the
\* archive has no entry named in the set and one entry for each other
\* eligible path, so eligible minus matched many, and extraction creates no
\* path of the set.
C3_IgnoreRule ==
    (honor /\ CompileIgnoreErr(fs0, Abs(source)) = Nil) =>
        /\ pc \in {"tar_done", "call_untar", "untar", "done"} =>
               /\ tarErr = Nil
               /\ { h.name : h \in HeadersWritten } = Eligible \ matched
               /\ NumHeadersWritten = Cardinality(Eligible) - Cardinality(matched)
        /\ \A p \in matched : Join(Abs(dest), p) \notin DOMAIN fs

-----------------------------------------------------------------------------
(* Claims about the gzip wrappers.                                         *)

Supported(lvl) == GzipNewWriterErr(lvl) = Nil

====
